---- MODULE Spec2Model ----
(***************************************************************************)
(* A model of scripts/validate_package.py: the validation pipeline of a    *)
(* Rayforge package (schema, content, assets, code entry point).           *)
(*                                                                         *)
(* Strings are sequences of one-character strings.  A YAML value is a      *)
(* record [t, s]: t is the Python type name of the value ("absent" when    *)
(* the key is not in the mapping) and s the text of a str value.           *)
(***************************************************************************)
EXTENDS Integers, Sequences

VARIABLES
    args,       \* argparse result: [tag, name], each a value [t, s]
    disk,       \* the package root on disk and the interpreter around it
    pc,         \* position in main()
    exc,        \* the exception in flight (NoExc when none)
    diags,      \* diagnostics printed to stderr, in order
    ran,        \* the checks that were started, in order
    exitCode,   \* -1 while running, then the process exit status
    sys_path,   \* sys.path
    executed,   \* modules of the package whose code was executed
    origin,     \* module_path: the file read and parsed by the entry-point check
    idx         \* loop index of `for asset_info in assets`

vars == <<args, disk, pc, exc, diags, ran, exitCode, sys_path, executed, origin, idx>>

(***************************************************************************)
(* Bounds of the model.                                                    *)
(***************************************************************************)
MaxTagLen == 7
MaxPathLen == 4
MaxRefLen == 5
MaxStmts == 2
MaxDeviations == 2

(***************************************************************************)
(* Characters and strings.                                                 *)
(***************************************************************************)
Lower == {"a","b","c","d","e","f","g","h","i","j","k","l","m",
          "n","o","p","q","r","s","t","u","v","w","x","y","z"}
Upper == {"A","B","C","D","E","F","G","H","I","J","K","L","M",
          "N","O","P","Q","R","S","T","U","V","W","X","Y","Z"}
Digit == {"0","1","2","3","4","5","6","7","8","9"}
Whitespace == {" ", "\t", "\n", "\r"}

SeqsUpTo(S, n) == UNION {[1..k -> S] : k \in 0..n}

AllIn(s, S) == \A i \in 1..Len(s) : s[i] \in S

\* index of the first occurrence of character c in s, 0 when there is none
IndexOf(s, c) ==
    IF \E i \in 1..Len(s) : s[i] = c
    THEN CHOOSE i \in 1..Len(s) : s[i] = c /\ \A j \in 1..(i-1) : s[j] # c
    ELSE 0

\* sub in s (Python's `in` on strings)
Contains(s, sub) ==
    \E i \in 0..(Len(s) - Len(sub)) :
        \A j \in 1..Len(sub) : s[i + j] = sub[j]

\* s.split(c): the pieces between the occurrences of c
RECURSIVE Split(_, _)
Split(s, c) ==
    LET i == IndexOf(s, c) IN
    IF i = 0 THEN <<s>>
    ELSE <<SubSeq(s, 1, i - 1)>> \o Split(SubSeq(s, i + 1, Len(s)), c)

\* s.strip(): leading and trailing whitespace removed
RECURSIVE LStripSet(_, _)
LStripSet(s, S) ==
    IF Len(s) > 0 /\ s[1] \in S THEN LStripSet(Tail(s), S) ELSE s

RECURSIVE RStripSet(_, _)
RStripSet(s, S) ==
    IF Len(s) > 0 /\ s[Len(s)] \in S
    THEN RStripSet(SubSeq(s, 1, Len(s) - 1), S) ELSE s

strip(s) == RStripSet(LStripSet(s, Whitespace), Whitespace)

(***************************************************************************)
(* Values, exceptions.                                                     *)
(***************************************************************************)
Val(t, s) == [t |-> t, s |-> s]
Absent == Val("absent", <<>>)
None == Val("NoneType", <<>>)
Str(s) == Val("str", s)

\* `not value` for the values that occur: None, "" are falsy
Falsy(v) == v.t \in {"absent", "NoneType"} \/ (v.t = "str" /\ v.s = <<>>)

Raise(type, kind, key) == [type |-> type, kind |-> kind, key |-> key]
NoExc == Raise("none", "none", <<>>)

\* the classes an exception type is an instance of
Bases(type) ==
    CASE type = "ValueError" -> {"ValueError", "Exception"}
      [] type = "UnicodeDecodeError" -> {"UnicodeDecodeError", "ValueError", "Exception"}
      [] type = "TypeError" -> {"TypeError", "Exception"}
      [] type = "AttributeError" -> {"AttributeError", "Exception"}
      [] type = "FileNotFoundError" -> {"FileNotFoundError", "OSError", "Exception"}
      [] type = "PermissionError" -> {"PermissionError", "OSError", "Exception"}
      [] type = "NameError" -> {"NameError", "Exception"}
      [] type = "SyntaxError" -> {"SyntaxError", "Exception"}
      [] type = "ImportError" -> {"ImportError", "Exception"}
      [] type = "ModuleNotFoundError" -> {"ModuleNotFoundError", "ImportError", "Exception"}
      [] type = "YAMLError" -> {"YAMLError", "Exception"}
      [] type = "SystemExit" -> {"SystemExit"}
      [] OTHER -> {}

(***************************************************************************)
(* Schema validation.                                                      *)
(***************************************************************************)
Rule(key, type) == [key |-> key, type |-> type, required |-> TRUE]

SCHEMA == << Rule("name", "str"), Rule("description", "str"),
             Rule("author", "dict"), Rule("provides", "dict") >>

AUTHOR_SCHEMA == << Rule("name", "str"), Rule("email", "str") >>

\* `key in data`
KeyIn(key, data) == data[key].t # "absent"

\* data.get("author", {}): the empty mapping when the key is absent
EmptyAuthor == [t |-> "dict", name |-> Absent, email |-> Absent]

RECURSIVE ValidateFrom(_, _, _, _)
ValidateFrom(data, schema, parent_key, i) ==
    IF i > Len(schema) THEN NoExc
    ELSE LET rules == schema[i]
             key == rules.key
             full_key == IF parent_key # "" THEN <<parent_key, key>> ELSE <<key>>
         IN  IF rules.required /\ ~KeyIn(key, data)
             THEN Raise("ValueError", "MissingKey", full_key)
             ELSE IF KeyIn(key, data) /\ data[key].t # rules.type
             THEN Raise("TypeError", "WrongType", full_key)
             ELSE ValidateFrom(data, schema, parent_key, i + 1)

\* mutant: all required keys are looked for before any type is checked
_validate_dict_schema_Mut(data, schema, parent_key) ==
    LET missing == {i \in 1..Len(schema) : ~KeyIn(schema[i].key, data)}
        full(i) == IF parent_key # "" THEN <<parent_key, schema[i].key>>
                   ELSE <<schema[i].key>>
    IN  IF missing # {}
        THEN Raise("ValueError", "MissingKey",
                   full(CHOOSE i \in missing : \A j \in missing : i <= j))
        ELSE ValidateFrom(data, schema, parent_key, 1)

_validate_dict_schema(data, schema, parent_key) ==
    ValidateFrom(data, schema, parent_key, 1)

(***************************************************************************)
(* Content checks.                                                         *)
(***************************************************************************)
\* _check_non_empty_str: `not value or not value.strip()`
_check_non_empty_str(value, key_name) ==
    IF Falsy(value) \/ strip(value.s) = <<>>
    THEN Raise("ValueError", "EmptyField", key_name)
    ELSE NoExc

\* semver's numeric identifier: 0|[1-9]\d*
NumericId(s) ==
    /\ Len(s) > 0
    /\ AllIn(s, Digit)
    /\ (s[1] = "0" => Len(s) = 1)

AlnumHyphen == Lower \cup Upper \cup Digit \cup {"-"}

\* semver's pre-release identifier: 0|[1-9]\d*|\d*[a-zA-Z-][0-9a-zA-Z-]*
PrereleaseId(s) ==
    /\ Len(s) > 0
    /\ AllIn(s, AlnumHyphen)
    /\ (AllIn(s, Digit) => NumericId(s))

\* semver's build identifier: [0-9a-zA-Z-]+
BuildId(s) == Len(s) > 0 /\ AllIn(s, AlnumHyphen)

AllIds(ids, P(_)) == \A i \in 1..Len(ids) : P(ids[i])

\* semver.VersionInfo.parse accepts s: major.minor.patch[-prerelease][+build]
SemverParses(s) ==
    LET plus == IndexOf(s, "+")
        main == IF plus = 0 THEN s ELSE SubSeq(s, 1, plus - 1)
        build == IF plus = 0 THEN <<>> ELSE SubSeq(s, plus + 1, Len(s))
        dash == IndexOf(main, "-")
        core == IF dash = 0 THEN main ELSE SubSeq(main, 1, dash - 1)
        pre == IF dash = 0 THEN <<>> ELSE SubSeq(main, dash + 1, Len(main))
        nums == Split(core, ".")
    IN  /\ Len(nums) = 3
        /\ AllIds(nums, NumericId)
        /\ (dash # 0 => AllIds(Split(pre, "."), PrereleaseId))
        /\ (plus # 0 => AllIds(Split(build, "."), BuildId))

_check_tag(tag) ==
    IF Falsy(tag) THEN NoExc
    ELSE IF SemverParses(LStripSet(tag.s, {"v"})) THEN NoExc
    ELSE Raise("ValueError", "InvalidVersion", <<>>)

_check_package_name(metadata_name, expected_name) ==
    IF Falsy(expected_name) THEN NoExc
    ELSE IF metadata_name # expected_name
    THEN Raise("ValueError", "NameMismatch", <<>>)
    ELSE NoExc

PLACEHOLDER == <<"y","o","u","r","-","g","i","t","h","u","b","-",
                 "u","s","e","r","n","a","m","e">>

EmailLocal == Lower \cup Upper \cup Digit \cup {"_", ".", "+", "-"}
EmailDomain == Lower \cup Upper \cup Digit \cup {"-"}
EmailTld == Lower \cup Upper \cup Digit \cup {"-", "."}

\* re.match(r"^[a-zA-Z0-9_.+-]+@[a-zA-Z0-9-]+\.[a-zA-Z0-9-.]+$", email);
\* `$` also matches before one trailing newline
EmailMatches(email) ==
    LET e == IF Len(email) > 0 /\ email[Len(email)] = "\n"
             THEN {email, SubSeq(email, 1, Len(email) - 1)} ELSE {email}
    IN  \E s \in e :
          LET at == IndexOf(s, "@")
              rest == SubSeq(s, at + 1, Len(s))
              dot == IndexOf(rest, ".")
          IN  /\ at > 1
              /\ AllIn(SubSeq(s, 1, at - 1), EmailLocal)
              /\ dot > 1
              /\ AllIn(SubSeq(rest, 1, dot - 1), EmailDomain)
              /\ dot < Len(rest)
              /\ AllIn(SubSeq(rest, dot + 1, Len(rest)), EmailTld)

\* the first exception of a sequence of checks run one after the other
RECURSIVE FirstRaised(_)
FirstRaised(results) ==
    IF results = <<>> THEN NoExc
    ELSE IF Head(results) # NoExc THEN Head(results)
    ELSE FirstRaised(Tail(results))

\* author_data.get(key, ""): the default only when the key is absent
GetOrEmpty(v) == IF v.t = "absent" THEN Str(<<>>) ELSE v

AuthorChecks(author_data) ==
    LET name == GetOrEmpty(author_data.name)
        email == GetOrEmpty(author_data.email)
    IN  << _check_non_empty_str(name, <<"author", "name">>),
           _check_non_empty_str(email, <<"author", "email">>),
           IF Contains(name.s, PLACEHOLDER)
           THEN Raise("ValueError", "PlaceholderDetected", <<"author", "name">>)
           ELSE NoExc,
           IF ~EmailMatches(email.s)
           THEN Raise("ValueError", "InvalidEmail", <<"author", "email">>)
           ELSE NoExc >>

\* mutant: the e-mail shape is checked before the placeholder
_check_author_content_Mut(author_data) ==
    LET c == AuthorChecks(author_data)
    IN  FirstRaised(<<c[1], c[2], c[4], c[3]>>)

_check_author_content(author_data) == FirstRaised(AuthorChecks(author_data))

(***************************************************************************)
(* Asset paths.  A location on disk is the sequence of directory and file  *)
(* names leading to it from the filesystem root.                           *)
(***************************************************************************)
\* Path(args.path).resolve(): the package root, an absolute location
root_path == << <<"r">> >>

\* the named segments of a path string: empty and "." segments are dropped
PathNames(path_str) ==
    SelectSeq(Split(path_str, "/"), LAMBDA seg : seg # <<>> /\ seg # <<".">>)

IsAbsolute(path_str) == Len(path_str) > 0 /\ path_str[1] = "/"

\* Path(path_str).parts, without the anchor of an absolute path
Parts(path_str) == PathNames(path_str)

\* root_path / path_str: an absolute right operand replaces the left one
JoinPath(base, path_str) ==
    IF IsAbsolute(path_str) THEN PathNames(path_str)
    ELSE base \o PathNames(path_str)

\* loc lies under (or is) the directory dir
Under(loc, dir) == Len(loc) >= Len(dir) /\ SubSeq(loc, 1, Len(dir)) = dir

_check_asset_path(path, root, exists) ==
    IF Falsy(path) \/ path.t # "str"
    THEN Raise("ValueError", "InvalidAsset", <<>>)
    ELSE IF \E i \in 1..Len(Parts(path.s)) : Parts(path.s)[i] = <<".", ".">>
    THEN Raise("ValueError", "PathTraversal", <<>>)
    ELSE IF JoinPath(root, path.s) \notin exists
    THEN Raise("FileNotFoundError", "AssetNotFound", <<>>)
    ELSE NoExc

(***************************************************************************)
(* Module resolution (importlib.util.find_spec).                           *)
(*                                                                         *)
(* disk.layout says what the package root holds under the name m:          *)
(*   "none"         nothing                                                *)
(*   "module"       m.py                                                   *)
(*   "package"      m/__init__.py                                          *)
(*   "package_sub"  m/__init__.py and m/m.py                               *)
(*   "nsdir_sub"    m/m.py, no m/__init__.py (a namespace package)         *)
(* disk.lib says whether a directory of the interpreter's own search path  *)
(* holds m.py: "none", "present", or "imported" (present, and already in   *)
(* sys.modules).  disk.effect is what the top-level code of the root's m   *)
(* (m.py or m/__init__.py) does when it is executed.                       *)
(***************************************************************************)
Layouts == {"none", "module", "package", "package_sub", "nsdir_sub"}
LibStates == {"none", "present", "imported"}
Effects == {"none", "raise", "exit", "path"}
\* disk.code: the status the package's code passes to sys.exit
PackageExitCodes == {0, 3}

\* a lookup that finds nothing (find_spec's None)
NoEntry == [found |-> FALSE, kind |-> "none", file |-> "none", sub |-> "none"]

\* what a directory of a search path holds under a module name
DirEntry(d, dir, seg) ==
    LET no == NoEntry
        yes(kind, file, sub) ==
            [found |-> TRUE, kind |-> kind, file |-> file, sub |-> sub]
    IN  IF seg # <<"m">> THEN no
        ELSE CASE dir = "root" /\ d.layout = "module" -> yes("module", "root_m", "none")
               [] dir = "root" /\ d.layout \in {"package", "package_sub"} ->
                      yes("package", "root_m", "root/m")
               [] dir = "root" /\ d.layout = "nsdir_sub" ->
                      yes("namespace", "none", "root/m")
               [] dir = "root/m" /\ d.layout \in {"package_sub", "nsdir_sub"} ->
                      yes("module", "root_m_m", "none")
               [] dir = "lib" /\ d.lib # "none" -> yes("module", "lib_m", "none")
               [] OTHER -> no

\* PathFinder: the first regular module or package along the path wins; a
\* directory without __init__.py only counts when nothing else is found
FindInPath(d, path, seg) ==
    LET regular == {i \in 1..Len(path) :
                       DirEntry(d, path[i], seg).kind \in {"module", "package"}}
        ns == {i \in 1..Len(path) : DirEntry(d, path[i], seg).kind = "namespace"}
    IN  IF regular # {}
        THEN DirEntry(d, path[CHOOSE i \in regular : \A j \in regular : i <= j], seg)
        ELSE IF ns # {}
        THEN DirEntry(d, path[CHOOSE i \in ns : \A j \in ns : i <= j], seg)
        ELSE NoEntry

PackageFiles == {"root_m", "root_m_m"}

\* The state of a resolution: the exception raised, the files whose code
\* was run, sys.path, and the spec found (found = FALSE: None).
Found(st, entry) == [st EXCEPT !.spec = entry]

\* import of a parent module: find it, execute it
ImportParent(d, st, dirs, seg, first) ==
    LET cached == first /\ seg = <<"m">> /\ d.lib = "imported"
        entry == IF cached THEN DirEntry(d, "lib", seg) ELSE FindInPath(d, dirs, seg)
        runs == ~cached /\ entry.file # "none"
        st1 == [st EXCEPT !.spec = entry,
                          !.executed = IF runs THEN Append(@, entry.file) ELSE @]
        effect == IF runs /\ entry.file = "root_m" THEN d.effect ELSE "none"
    IN  IF ~entry.found
        THEN [st EXCEPT !.exc = Raise("ModuleNotFoundError", "Unexpected", <<>>)]
        ELSE CASE effect = "raise" ->
                    [st1 EXCEPT !.exc = Raise("ImportError", "Unexpected", <<>>)]
               [] effect = "exit" ->
                    [st1 EXCEPT !.exc = Raise("SystemExit", "PackageExit", <<d.code>>)]
               [] effect = "path" -> [st1 EXCEPT !.path = <<"x">> \o @]
               [] OTHER -> st1

RECURSIVE ResolveFrom(_, _, _, _, _)
ResolveFrom(d, st, segs, i, dirs) ==
    IF i = Len(segs)
    THEN IF i = 1 /\ segs[1] = <<"m">> /\ d.lib = "imported"
         THEN Found(st, DirEntry(d, "lib", segs[1]))
         ELSE Found(st, FindInPath(d, dirs, segs[i]))
    ELSE LET st1 == ImportParent(d, st, dirs, segs[i], i = 1) IN
         IF st1.exc # NoExc THEN st1
         ELSE IF st1.spec.sub = "none"
         THEN \* the parent has no __path__
              [st1 EXCEPT !.exc = Raise("ModuleNotFoundError", "Unexpected", <<>>)]
         ELSE ResolveFrom(d, st1, segs, i + 1, <<st1.spec.sub>>)

\* importlib.util.find_spec(module_name) under the search path `path`
find_spec(d, module_name, path) ==
    LET st0 == [exc |-> NoExc, executed |-> <<>>, path |-> path,
                spec |-> NoEntry]
    IN  IF Len(module_name) > 0 /\ module_name[1] = "."
        THEN [st0 EXCEPT !.exc = Raise("ImportError", "Unexpected", <<>>)]
        ELSE ResolveFrom(d, st0, Split(module_name, "."), 1, path)

\* spec.origin: the location of a module's file
FileLocation(d, file) ==
    CASE file = "root_m" /\ d.layout = "module" -> root_path \o << <<"m", ".", "p", "y">> >>
      [] file = "root_m" -> root_path \o << <<"m">>, <<"_", "_", "i", "n", "i", "t", "_", "_", ".", "p", "y">> >>
      [] file = "root_m_m" -> root_path \o << <<"m">>, <<"m", ".", "p", "y">> >>
      [] file = "lib_m" -> << <<"l", "i", "b">>, <<"m", ".", "p", "y">> >>
      [] OTHER -> <<>>

(***************************************************************************)
(* The syntax tree of a module: its top-level statements.  A statement is  *)
(* [kind, name, targets, body]: the ast node class, the name a def or      *)
(* class binds, the targets of an assignment, the statements nested in it. *)
(***************************************************************************)
Node(kind, name, targets, body) ==
    [kind |-> kind, name |-> name, targets |-> targets, body |-> body]
Target(kind, id) == [kind |-> kind, id |-> id]

\* one iteration of `for node in tree.body`
NodeDefines(node, attr_name) ==
    \/ node.kind \in {"FunctionDef", "ClassDef"} /\ node.name = attr_name
    \/ /\ node.kind = "Assign"
       /\ \E i \in 1..Len(node.targets) :
              node.targets[i].kind = "Name" /\ node.targets[i].id = attr_name

\* mutant: every node of the tree is visited (ast.walk), not only tree.body
BodyDefines_Mut(stmts, attr_name) ==
    \E i \in 1..Len(stmts) :
        \/ NodeDefines(stmts[i], attr_name)
        \/ \E j \in 1..Len(stmts[i].body) : NodeDefines(stmts[i].body[j], attr_name)

\* the loop over tree.body returns at the first statement defining attr_name
BodyDefines(stmts, attr_name) ==
    \E i \in 1..Len(stmts) : NodeDefines(stmts[i], attr_name)

\* entry_point.split(":", 1)
module_name_of(entry_point) == SubSeq(entry_point, 1, IndexOf(entry_point, ":") - 1)
attr_name_of(entry_point) ==
    SubSeq(entry_point, IndexOf(entry_point, ":") + 1, Len(entry_point))

(***************************************************************************)
(* main(): one action per check, in program order.                         *)
(***************************************************************************)
metadata == disk.metadata

\* a check raised e: control leaves the try block
Throw(e) == exc' = e /\ pc' = "except"

\* a check started: it is appended to the log
Log(check) == ran' = Append(ran, check)

\* _load_metadata
LoadMetadata ==
    /\ pc = "load"
    /\ Log("load")
    /\ IF disk.metaFile = "missing"
       THEN /\ diags' = Append(diags, [handler |-> "not_found", kind |-> "FileNotFound"])
            /\ Throw(Raise("SystemExit", "FileNotFound", <<1>>))
       ELSE /\ diags' = diags
            /\ CASE disk.metaFile = "unreadable" ->
                        Throw(Raise("PermissionError", "Unexpected", <<>>))
                 [] disk.metaFile = "bad_yaml" ->
                        Throw(Raise("YAMLError", "ParseError", <<>>))
                 [] OTHER -> exc' = exc /\ pc' = "shape"
    /\ UNCHANGED <<args, disk, exitCode, sys_path, executed, origin, idx>>

\* the common frame of a check that raises or passes on to pc = next
Check(at, name, result, next) ==
    /\ pc = at
    /\ Log(name)
    /\ IF result # NoExc THEN Throw(result) ELSE exc' = exc /\ pc' = next
    /\ UNCHANGED <<args, disk, diags, exitCode, sys_path, executed, origin, idx>>

\* `if not isinstance(metadata, dict)`
CheckShape ==
    Check("shape", "shape",
          IF metadata.top # "dict" THEN Raise("TypeError", "WrongShape", <<>>) ELSE NoExc,
          "schema_top")

\* validate_schema, first call
ValidateTopSchema ==
    Check("schema_top", "schema_top", _validate_dict_schema(metadata, SCHEMA, ""),
          "schema_author")

\* validate_schema, second call
ValidateAuthorSchema ==
    Check("schema_author", "schema_author",
          _validate_dict_schema(IF metadata.author.t = "absent" THEN EmptyAuthor
                                ELSE metadata.author,
                                AUTHOR_SCHEMA, "author"),
          "check_tag")

CheckTag == Check("check_tag", "tag", _check_tag(args.tag), "check_package_name")

CheckPackageName ==
    Check("check_package_name", "name_match",
          _check_package_name(metadata.name, args.name), "name_non_empty")

CheckNameNonEmpty ==
    Check("name_non_empty", "name_non_empty",
          _check_non_empty_str(metadata.name, <<"name">>), "description_non_empty")

CheckDescriptionNonEmpty ==
    Check("description_non_empty", "description_non_empty",
          _check_non_empty_str(metadata.description, <<"description">>),
          "author_content")

\* the checks of _check_author_content that were started
AuthorCheckNames == <<"author_name", "author_email", "placeholder", "email_shape">>
Started(results) ==
    IF \E i \in 1..Len(results) : results[i] # NoExc
    THEN CHOOSE i \in 1..Len(results) :
            results[i] # NoExc /\ \A j \in 1..(i - 1) : results[j] = NoExc
    ELSE Len(results)

CheckAuthorContent ==
    LET author == IF metadata.author.t = "absent" THEN EmptyAuthor ELSE metadata.author
        result == _check_author_content(author)
    IN  /\ pc = "author_content"
        /\ ran' = ran \o SubSeq(AuthorCheckNames, 1, Started(AuthorChecks(author)))
        /\ IF result # NoExc THEN Throw(result)
           ELSE exc' = exc /\ pc' = "provides"
        /\ UNCHANGED <<args, disk, diags, exitCode, sys_path, executed, origin, idx>>

provides_data == metadata.provides

\* _check_provides up to the loop over the assets
CheckProvides ==
    LET assets == provides_data.assets
        code == provides_data.code
        result ==
            IF provides_data.t = "absent" \/ (assets.t = "absent" /\ code.t = "absent")
            THEN Raise("ValueError", "EmptyProvides", <<>>)
            ELSE IF assets.t \notin {"absent", "list"}
            THEN Raise("TypeError", "WrongType", <<"provides", "assets">>)
            ELSE NoExc
    IN  /\ pc = "provides"
        /\ Log("provides")
        /\ idx' = 1
        /\ IF result # NoExc THEN Throw(result)
           ELSE exc' = exc
                /\ pc' = IF assets.t = "list" THEN "assets" ELSE "code"
        /\ UNCHANGED <<args, disk, diags, exitCode, sys_path, executed, origin>>

\* one iteration of `for asset_info in assets`, or the end of the loop
CheckAsset ==
    LET items == provides_data.assets.items IN
    /\ pc = "assets"
    /\ IF idx > Len(items)
       THEN /\ pc' = IF provides_data.code.t # "absent" THEN "code" ELSE "content_ok"
            /\ UNCHANGED <<exc, ran, idx>>
       ELSE LET asset_info == items[idx]
                result == IF asset_info.t # "dict"
                          THEN Raise("TypeError", "WrongType", <<"assets">>)
                          ELSE _check_asset_path(
                                   IF asset_info.path.t = "absent" THEN None
                                   ELSE asset_info.path,
                                   root_path, disk.exists)
            IN  /\ Log("asset")
                /\ idx' = idx + 1
                /\ IF result # NoExc THEN Throw(result)
                   ELSE exc' = exc /\ pc' = "assets"
    /\ UNCHANGED <<args, disk, diags, exitCode, sys_path, executed, origin>>

entry_point == provides_data.code

\* _check_code_entry_point up to the try statement
CheckCodeEntryPoint ==
    /\ pc = "code"
    /\ Log("entry_point")
    /\ IF entry_point.t # "str"
       THEN Throw(Raise("TypeError", "NotAString", <<>>)) /\ sys_path' = sys_path
       ELSE IF IndexOf(entry_point.s, ":") = 0
       THEN Throw(Raise("ValueError", "MalformedRef", <<>>)) /\ sys_path' = sys_path
       ELSE /\ sys_path' = <<"root">> \o sys_path
            /\ exc' = exc
            /\ pc' = "find_spec"
    /\ UNCHANGED <<args, disk, diags, exitCode, executed, origin, idx>>

\* spec = importlib.util.find_spec(module_name), and the test of the spec
FindSpec ==
    LET st == find_spec(disk, module_name_of(entry_point.s), sys_path) IN
    /\ pc = "find_spec"
    /\ sys_path' = st.path
    /\ executed' = executed \o st.executed
    /\ IF st.exc # NoExc
       THEN exc' = st.exc /\ pc' = "finally" /\ origin' = origin
       ELSE IF ~st.spec.found \/ st.spec.file = "none"
       THEN /\ exc' = Raise("FileNotFoundError", "ModuleNotFound", <<>>)
            /\ pc' = "finally"
            /\ origin' = origin
       ELSE exc' = exc /\ pc' = "parse" /\ origin' = st.spec.file
    /\ UNCHANGED <<args, disk, diags, ran, exitCode, idx>>

\* module_path.read_text() and ast.parse
ReadAndParse ==
    /\ pc = "parse"
    /\ CASE disk.src[origin].state = "unreadable" ->
                exc' = Raise("PermissionError", "Unexpected", <<>>) /\ pc' = "finally"
         [] disk.src[origin].state = "unparsable" ->
                exc' = Raise("SyntaxError", "Unexpected", <<>>) /\ pc' = "finally"
         [] OTHER -> exc' = exc /\ pc' = "scan"
    /\ UNCHANGED <<args, disk, diags, ran, exitCode, sys_path, executed, origin, idx>>

\* the loop over tree.body, and the NameError after it
ScanTree ==
    /\ pc = "scan"
    /\ exc' = IF BodyDefines(disk.src[origin].body, attr_name_of(entry_point.s))
              THEN exc
              ELSE Raise("NameError", "AttributeNotFound", <<>>)
    /\ pc' = "finally"
    /\ UNCHANGED <<args, disk, diags, ran, exitCode, sys_path, executed, origin, idx>>

\* finally: sys.path.pop(0)
Finally ==
    /\ pc = "finally"
    /\ sys_path' = Tail(sys_path)
    /\ pc' = IF exc # NoExc THEN "except" ELSE "content_ok"
    /\ UNCHANGED <<args, disk, exc, diags, ran, exitCode, executed, origin, idx>>

\* the end of the try block: the confirmation, return 0
Success ==
    /\ pc = "content_ok"
    /\ exitCode' = 0
    /\ pc' = "done"
    /\ UNCHANGED <<args, disk, exc, diags, ran, sys_path, executed, origin, idx>>

Caught(classes) == Bases(exc.type) \cap classes # {}

\* the except clauses of main; a SystemExit passes them and ends the process
Except ==
    /\ pc = "except"
    /\ pc' = "done"
    /\ IF Caught({"ValueError", "TypeError", "FileNotFoundError", "NameError"})
       THEN /\ diags' = Append(diags, [handler |-> "validation", kind |-> exc.kind])
            /\ exitCode' = 1
       ELSE IF Caught({"YAMLError"})
       THEN /\ diags' = Append(diags, [handler |-> "parse", kind |-> exc.kind])
            /\ exitCode' = 1
       ELSE IF Caught({"Exception"})
       THEN /\ diags' = Append(diags, [handler |-> "unexpected", kind |-> exc.kind])
            /\ exitCode' = 1
       ELSE /\ diags' = diags
            /\ exitCode' = exc.key[1]
    /\ UNCHANGED <<args, disk, exc, ran, sys_path, executed, origin, idx>>

(***************************************************************************)
(* Inputs.                                                                 *)
(***************************************************************************)
Def(name) == Node("FunctionDef", name, <<>>, <<>>)
Source(state, body) == [state |-> state, body |-> body]
GoodSource == Source("ok", << Def(<<"f">>) >>)
GoodSources == [root_m |-> GoodSource, root_m_m |-> GoodSource, lib_m |-> GoodSource]

Asset(t, path) == [t |-> t, path |-> path]
Assets(t, items) == [t |-> t, items |-> items]
Author(t, name, email) == [t |-> t, name |-> name, email |-> email]
Provides(t, assets, code) == [t |-> t, assets |-> assets, code |-> code]
Document(top, name, description, author, provides) ==
    [top |-> top, name |-> name, description |-> description,
     author |-> author, provides |-> provides]

GoodEmail == <<"a", "@", "b", ".", "c">>
GoodAuthor == Author("dict", Str(<<"A">>), Str(GoodEmail))
GoodAssets == Assets("list", << Asset("dict", Str(<<"a">>)) >>)
GoodRef == <<"m", ":", "f">>
GoodProvides == Provides("dict", GoodAssets, Str(GoodRef))
GoodMetadata ==
    Document("dict", Str(<<"p">>), Str(<<"d">>), GoodAuthor, GoodProvides)

\* the filesystem root and the package root always exist
AlwaysThere == {<<>>, root_path}
AssetA == root_path \o << <<"a">> >>
OutsideA == << <<"a">> >>

GoodDisk ==
    [metaFile |-> "ok", metadata |-> GoodMetadata,
     exists |-> AlwaysThere \cup {AssetA},
     layout |-> "module", lib |-> "none", effect |-> "none", code |-> 3,
     src |-> GoodSources]

GoodArgs == [tag |-> None, name |-> None]

\* sys.path as the interpreter starts the script
InitialPath == <<"scripts", "lib">>

Start(a, d, at) ==
    /\ args = a
    /\ disk = d
    /\ pc = at
    /\ exc = NoExc
    /\ diags = <<>>
    /\ ran = <<>>
    /\ exitCode = -1
    /\ sys_path = InitialPath
    /\ executed = <<>>
    /\ origin = "none"
    /\ idx = 1

(***************************************************************************)
(* SpecSchema: validate_schema on every document shape.                    *)
(***************************************************************************)
FieldTypes == {"absent", "str", "int", "dict", "list", "NoneType"}
Field(t) == Val(t, IF t = "str" THEN <<"p">> ELSE <<>>)

SchemaAuthors ==
    {Author(t, Absent, Absent) : t \in FieldTypes \ {"dict"}}
    \cup {Author("dict", Field(n), Field(e)) : n \in FieldTypes, e \in FieldTypes}

SchemaDocuments ==
    {Document("dict", Field(n), Field(d), a,
              IF p = "dict" THEN GoodProvides ELSE Provides(p, GoodAssets, Absent)) :
        n \in FieldTypes, d \in FieldTypes, a \in SchemaAuthors, p \in FieldTypes}

InitSchema ==
    \E m \in SchemaDocuments :
        Start(GoodArgs, [GoodDisk EXCEPT !.metadata = m], "schema_top")

NextSchema == ValidateTopSchema \/ ValidateAuthorSchema

SpecSchema == InitSchema /\ [][NextSchema]_vars

\* validate_schema has returned or raised
SchemaDone == pc \in {"check_tag", "except"}

TopKeys == <<"name", "description", "author", "provides">>
TopTypes == [name |-> "str", description |-> "str", author |-> "dict", provides |-> "dict"]
MissingAt(i) == metadata[TopKeys[i]].t = "absent"
WrongAt(i) == ~MissingAt(i) /\ metadata[TopKeys[i]].t # TopTypes[TopKeys[i]]
BadAt(i) == MissingAt(i) \/ WrongAt(i)
FirstBad(i) == BadAt(i) /\ \A j \in 1..(i - 1) : ~BadAt(j)

\* C6 as stated: a document missing a required top-level field is reported
\* as MissingKey naming a missing field, whatever the other fields are
C6_AsClaimed ==
    (SchemaDone /\ \E i \in 1..4 : MissingAt(i)) =>
        /\ exc.kind = "MissingKey"
        /\ \E i \in 1..4 : MissingAt(i) /\ exc.key = <<TopKeys[i]>>

\* C6 amended: the schema's fields are examined in the order name,
\* description, author, provides, and the first one that is missing or of the
\* wrong type is the one reported: MissingKey naming it when it is missing,
\* WrongType naming it when it has the wrong type.  A missing field is thus
\* reported as MissingKey exactly when no earlier field is missing or wrong.
C6_FirstBadFieldReported ==
    SchemaDone =>
        \A i \in 1..4 :
            FirstBad(i) =>
                /\ exc.key = <<TopKeys[i]>>
                /\ exc.kind = IF MissingAt(i) THEN "MissingKey" ELSE "WrongType"
                /\ exc.type = IF MissingAt(i) THEN "ValueError" ELSE "TypeError"

\* a missing field after present, well-typed ones has been reported
C6_Witness ==
    /\ SchemaDone
    /\ MissingAt(3) /\ ~BadAt(1) /\ ~BadAt(2) /\ WrongAt(4)
    /\ exc.kind = "MissingKey" /\ exc.key = <<"author">>

(***************************************************************************)
(* SpecTag: _check_tag on every short tag string.                          *)
(***************************************************************************)
TagChars == {"v", "0", "1", ".", "-"}
Tags == {None} \cup {Str(s) : s \in SeqsUpTo(TagChars, MaxTagLen)}

InitTag == \E t \in Tags : Start([GoodArgs EXCEPT !.tag = t], GoodDisk, "check_tag")

NextTag == CheckTag

SpecTag == InitTag /\ [][NextTag]_vars

TagDone == pc \in {"check_package_name", "except"}

\* the tag without its leading v, when it has one
WithoutOneV(s) == IF Len(s) > 0 /\ s[1] = "v" THEN Tail(s) ELSE s

\* C7 as stated: a given tag is accepted exactly when, with one leading v
\* removed, it is a semantic version, and is refused as InvalidVersion
\* otherwise; an absent tag is accepted
C7_AsClaimed ==
    TagDone =>
        IF Falsy(args.tag) THEN exc = NoExc
        ELSE /\ exc = NoExc <=> SemverParses(WithoutOneV(args.tag.s))
             /\ exc # NoExc => exc.kind = "InvalidVersion"

(***************************************************************************)
(* SpecAsset: _check_asset_path on every short path string.                *)
(***************************************************************************)
PathChars == {"a", "r", "/", "."}
AssetPaths ==
    {Absent, None, Val("int", <<>>)} \cup {Str(s) : s \in SeqsUpTo(PathChars, MaxPathLen)}

InitAsset ==
    \E p \in AssetPaths, e \in SUBSET {AssetA, OutsideA} :
        Start(GoodArgs,
              [GoodDisk EXCEPT !.exists = AlwaysThere \cup e,
                               !.metadata.provides.assets.items = << Asset("dict", p) >>],
              "assets")

NextAsset == CheckAsset

SpecAsset == InitAsset /\ [][NextAsset]_vars

\* the first asset was checked and accepted
AssetAccepted == idx = 2 /\ exc = NoExc

\* C4 as stated: the location of an accepted asset lies under the package root
C4_AsClaimed ==
    AssetAccepted =>
        Under(JoinPath(root_path, provides_data.assets.items[1].path.s), root_path)

(***************************************************************************)
(* SpecEntry: _check_code_entry_point on every short reference, for every  *)
(* layout of the package root and of the interpreter's search path.        *)
(***************************************************************************)
RefChars == {"m", "f", ".", ":"}
Refs == {Val("int", <<>>)} \cup {Str(s) : s \in SeqsUpTo(RefChars, MaxRefLen)}

\* the root's m runs code only where there is a file to run
Behaviours ==
    {[layout |-> l, effect |-> "none", code |-> 3] : l \in Layouts}
    \cup {[layout |-> l, effect |-> e, code |-> 3] :
             l \in {"module", "package", "package_sub"}, e \in {"raise", "path"}}
    \cup {[layout |-> l, effect |-> "exit", code |-> c] :
             l \in {"module", "package", "package_sub"}, c \in PackageExitCodes}

WithCode(d, ref) == [d EXCEPT !.metadata.provides.code = ref]
WithBehaviour(d, b) ==
    [d EXCEPT !.layout = b.layout, !.effect = b.effect, !.code = b.code]

InitEntry ==
    \E ref \in Refs, b \in Behaviours, lib \in LibStates :
        Start(GoodArgs, [WithBehaviour(WithCode(GoodDisk, ref), b) EXCEPT !.lib = lib],
              "code")

NextEntry ==
    \/ CheckCodeEntryPoint
    \/ FindSpec
    \/ ReadAndParse
    \/ ScanTree
    \/ Finally

SpecEntry == InitEntry /\ [][NextEntry]_vars

\* _check_code_entry_point has returned (content_ok) or raised (except)
EntryDone == pc \in {"content_ok", "except"}
EntrySucceeded == pc = "content_ok"

\* C3 as stated: no code of the package is ever executed
C3_AsClaimed == \A i \in 1..Len(executed) : executed[i] \notin PackageFiles

\* C5 as stated: a resolved and accepted module file lies under the package
\* root, and a module found only outside it is reported as ModuleNotFound
OnlyOutside ==
    /\ disk.layout = "none" /\ disk.lib # "none"
    /\ entry_point.t = "str" /\ IndexOf(entry_point.s, ":") # 0
    /\ module_name_of(entry_point.s) = <<"m">>

C5_AsClaimed ==
    /\ EntrySucceeded => Under(FileLocation(disk, origin), root_path)
    /\ (EntryDone /\ OnlyOutside) => exc.kind = "ModuleNotFound"

\* C10 as stated: when the check is over, sys.path is what it was before
C10_AsClaimed == EntryDone => sys_path = InitialPath

(***************************************************************************)
(* SpecScan: _check_code_entry_point on every short reference and on every *)
(* short module body.                                                      *)
(***************************************************************************)
AttrNames == {<<"f">>, <<"m">>}

TargetLists ==
    {<<Target("Name", n)>> : n \in AttrNames}
    \cup {<<Target("Attribute", <<"f">>)>>, <<Target("Tuple", <<"f">>)>>,
          <<Target("Name", <<"m">>), Target("Name", <<"f">>)>>,
          <<Target("Attribute", <<"f">>), Target("Name", <<"m">>)>>}

\* statements without nested statements
FlatStatements ==
    {Node(k, n, <<>>, <<>>) :
        k \in {"FunctionDef", "AsyncFunctionDef", "ClassDef"}, n \in AttrNames}
    \cup {Node("Assign", <<>>, t, <<>>) : t \in TargetLists}
    \cup {Node("AnnAssign", <<>>, <<Target("Name", <<"f">>)>>, <<>>),
          Node("Expr", <<>>, <<>>, <<>>)}

\* statements that define f one level down
NestingStatements ==
    {Node(k.kind, k.name, <<>>, <<inner>>) :
        k \in {[kind |-> "FunctionDef", name |-> <<"m">>],
               [kind |-> "ClassDef", name |-> <<"m">>],
               [kind |-> "If", name |-> <<>>]},
        inner \in {Def(<<"f">>), Node("Assign", <<>>, <<Target("Name", <<"f">>)>>, <<>>)}}

Statements == FlatStatements \cup NestingStatements
Bodies == SeqsUpTo(Statements, MaxStmts)

ScanRefs == {Str(<<"m", ":", "f">>), Str(<<"m", ":", "m">>), Str(<<"m", ".", "m", ":", "f">>)}
ScanLayouts == {[layout |-> l, effect |-> "none", code |-> 3] : l \in {"module", "package_sub"}}
SourceStates == {"ok", "unreadable", "unparsable"}

\* the file the reference resolves to, when it resolves
Resolved(ref) ==
    IF module_name_of(ref.s) = <<"m">> THEN "root_m" ELSE "root_m_m"

InitScan ==
    \/ \E ref \in Refs, b \in Behaviours :
          Start(GoodArgs, WithBehaviour(WithCode(GoodDisk, ref), b), "code")
    \/ \E ref \in Refs, b \in ScanLayouts, st \in SourceStates :
          Start(GoodArgs,
                [WithBehaviour(WithCode(GoodDisk, ref), b) EXCEPT
                    !.src = [f \in DOMAIN GoodSources |-> Source(st, GoodSource.body)]],
                "code")
    \/ \E ref \in ScanRefs, b \in ScanLayouts, body \in Bodies :
          Start(GoodArgs,
                [WithBehaviour(WithCode(GoodDisk, ref), b) EXCEPT
                    !.src[Resolved(ref)] = Source("ok", body)],
                "code")

SpecScan == InitScan /\ [][NextEntry]_vars

\* the text after the first ':' of the reference
FirstColon(s) == CHOOSE i \in 1..Len(s) : s[i] = ":" /\ \A j \in 1..(i - 1) : s[j] # ":"
AttributeAsked == SubSeq(entry_point.s, FirstColon(entry_point.s) + 1, Len(entry_point.s))

\* some direct top-level statement of the scanned module is a def or a class
\* named a, or an assignment with a bare-name target a
DefinedAtTopLevel(a) ==
    \E i \in 1..Len(disk.src[origin].body) :
        LET st == disk.src[origin].body[i] IN
        \/ st.kind = "FunctionDef" /\ st.name = a
        \/ st.kind = "ClassDef" /\ st.name = a
        \/ st.kind = "Assign" /\ Target("Name", a) \in {st.targets[j] : j \in 1..Len(st.targets)}

\* the module of the reference was resolved to a file whose source parses
ResolvedToSource == origin # "none" /\ disk.src[origin].state = "ok"

HasColon == \E i \in 1..Len(entry_point.s) : entry_point.s[i] = ":"

\* C8: once the module of a well-formed reference is resolved to a source
\* file, the check succeeds exactly when the attribute (the text after the
\* first ':') is defined by a direct top-level def, class or bare-name
\* assignment, and fails with AttributeNotFound otherwise; a reference
\* without ':' fails with MalformedRef before anything is resolved
C8_EntryPointScan ==
    (EntryDone /\ entry_point.t = "str") =>
        /\ ~HasColon =>
              /\ exc.kind = "MalformedRef"
              /\ origin = "none" /\ executed = <<>> /\ sys_path = InitialPath
        /\ (HasColon /\ ResolvedToSource) =>
              /\ exc = NoExc <=> DefinedAtTopLevel(AttributeAsked)
              /\ exc # NoExc => exc.kind = "AttributeNotFound" /\ exc.type = "NameError"

\* a module that defines f only inside another definition was scanned and
\* the reference to f refused
C8_Witness ==
    /\ EntryDone /\ entry_point = Str(<<"m", ".", "m", ":", "f">>)
    /\ ResolvedToSource
    /\ disk.src[origin].body = << Node("ClassDef", <<"m">>, <<>>, <<Def(<<"f">>)>>) >>
    /\ exc.kind = "AttributeNotFound"

(***************************************************************************)
(* Spec: main() on the packages that differ from a valid one in at most    *)
(* MaxDeviations places.  A deviation replaces one part of the input; the  *)
(* ones marked valid leave the document loadable and schema-valid.         *)
(***************************************************************************)
Dev(dim, valid, val) == [dim |-> dim, valid |-> valid, val |-> val]
Behaviour(layout, effect, code) == [layout |-> layout, effect |-> effect, code |-> code]

NestedOnly == Source("ok", << Node("ClassDef", <<"m">>, <<>>, << Def(<<"f">>) >>) >>)

Deviations == <<
    Dev("metaFile", FALSE, "missing"),
    Dev("metaFile", FALSE, "unreadable"),
    Dev("metaFile", FALSE, "bad_yaml"),
    Dev("top", FALSE, "list"),
    Dev("top", FALSE, "NoneType"),
    Dev("name", FALSE, Absent),
    Dev("name", FALSE, Val("int", <<>>)),
    Dev("name", TRUE, Str(<<>>)),
    Dev("name", TRUE, Str(<<" ">>)),
    Dev("name", TRUE, Str(<<"q">>)),
    Dev("description", FALSE, Absent),
    Dev("description", FALSE, None),
    Dev("description", TRUE, Str(<<>>)),
    Dev("description", TRUE, Str(<<" ", "\t">>)),
    Dev("authorT", FALSE, "absent"),
    Dev("authorT", FALSE, "str"),
    Dev("authorName", FALSE, Absent),
    Dev("authorName", FALSE, Val("int", <<>>)),
    Dev("authorName", TRUE, Str(<<>>)),
    Dev("authorName", TRUE, Str(<<" ">>)),
    Dev("authorName", TRUE, Str(PLACEHOLDER)),
    Dev("authorName", TRUE, Str(<<"x">> \o PLACEHOLDER \o <<"y">>)),
    Dev("authorEmail", FALSE, Absent),
    Dev("authorEmail", FALSE, None),
    Dev("authorEmail", TRUE, Str(<<>>)),
    Dev("authorEmail", TRUE, Str(<<" ">>)),
    Dev("authorEmail", TRUE, Str(<<"a">>)),
    Dev("authorEmail", TRUE, Str(<<"a", "@", "b">>)),
    Dev("providesT", FALSE, "absent"),
    Dev("providesT", FALSE, "list"),
    Dev("assets", TRUE, Assets("absent", <<>>)),
    Dev("assets", TRUE, Assets("str", <<>>)),
    Dev("assets", TRUE, Assets("list", <<>>)),
    Dev("assets", TRUE, Assets("list", << Asset("str", Absent) >>)),
    Dev("assets", TRUE, Assets("list", << Asset("dict", Absent) >>)),
    Dev("assets", TRUE, Assets("list", << Asset("dict", Val("int", <<>>)) >>)),
    Dev("assets", TRUE, Assets("list", << Asset("dict", Str(<<"a", "/", ".", ".">>)) >>)),
    Dev("assets", TRUE, Assets("list", << Asset("dict", Str(<<"r">>)) >>)),
    Dev("assets", TRUE, Assets("list", << Asset("dict", Str(<<"/", "a">>)) >>)),
    Dev("assets", TRUE, Assets("list", << Asset("dict", Str(<<"a">>)),
                                          Asset("dict", Str(<<"r">>)) >>)),
    Dev("code", TRUE, Absent),
    Dev("code", TRUE, Val("int", <<>>)),
    Dev("code", TRUE, Str(<<"m", "f">>)),
    Dev("code", TRUE, Str(<<"m", ":", "m">>)),
    Dev("code", TRUE, Str(<<"f", ":", "f">>)),
    Dev("code", TRUE, Str(<<"m", ".", "m", ":", "f">>)),
    Dev("code", TRUE, Str(<<"m", ":", "f", ":", "f">>)),
    Dev("tag", TRUE, Str(<<>>)),
    Dev("tag", TRUE, Str(<<"v", "1", ".", "1", ".", "0">>)),
    Dev("tag", TRUE, Str(<<"v", "v", "1", ".", "1", ".", "0">>)),
    Dev("tag", TRUE, Str(<<"v", "1", ".", "1">>)),
    Dev("tag", TRUE, Str(<<"1", ".", "1", ".", "0", "-", "1">>)),
    Dev("argName", TRUE, Str(<<>>)),
    Dev("argName", TRUE, Str(<<"p">>)),
    Dev("argName", TRUE, Str(<<"q">>)),
    Dev("behaviour", TRUE, Behaviour("none", "none", 3)),
    Dev("behaviour", TRUE, Behaviour("package", "none", 3)),
    Dev("behaviour", TRUE, Behaviour("package_sub", "none", 3)),
    Dev("behaviour", TRUE, Behaviour("nsdir_sub", "none", 3)),
    Dev("behaviour", TRUE, Behaviour("package_sub", "raise", 3)),
    Dev("behaviour", TRUE, Behaviour("package_sub", "exit", 3)),
    Dev("behaviour", TRUE, Behaviour("package_sub", "exit", 0)),
    Dev("behaviour", TRUE, Behaviour("package_sub", "path", 3)),
    Dev("behaviour", TRUE, Behaviour("module", "exit", 0)),
    Dev("lib", TRUE, "present"),
    Dev("lib", TRUE, "imported"),
    Dev("source", TRUE, Source("unreadable", <<>>)),
    Dev("source", TRUE, Source("unparsable", <<>>)),
    Dev("source", TRUE, Source("ok", <<>>)),
    Dev("source", TRUE, NestedOnly),
    Dev("exists", TRUE, AlwaysThere),
    Dev("exists", TRUE, AlwaysThere \cup {AssetA, OutsideA})
>>

\* the sets of at most k of the deviations in S, no two of the same part
RECURSIVE UpTo(_, _)
UpTo(S, k) ==
    IF k = 0 THEN {{}}
    ELSE LET fewer == UpTo(S, k - 1) IN
         fewer \cup UNION {
             {P \cup {i} : i \in {j \in S : \A q \in P : Deviations[q].dim # Deviations[j].dim}} :
             P \in fewer}

\* the input a set of deviations describes
Pick(P, dim, base) ==
    IF \E i \in P : Deviations[i].dim = dim
    THEN Deviations[CHOOSE i \in P : Deviations[i].dim = dim].val
    ELSE base

InputArgs(P) == [tag |-> Pick(P, "tag", None), name |-> Pick(P, "argName", None)]

InputDisk(P) ==
    LET b == Pick(P, "behaviour", Behaviour("module", "none", 3))
        source == Pick(P, "source", GoodSource)
    IN  [metaFile |-> Pick(P, "metaFile", "ok"),
         metadata |->
            Document(Pick(P, "top", "dict"),
                     Pick(P, "name", GoodMetadata.name),
                     Pick(P, "description", GoodMetadata.description),
                     Author(Pick(P, "authorT", "dict"),
                            Pick(P, "authorName", GoodAuthor.name),
                            Pick(P, "authorEmail", GoodAuthor.email)),
                     Provides(Pick(P, "providesT", "dict"),
                              Pick(P, "assets", GoodAssets),
                              Pick(P, "code", Str(GoodRef)))),
         exists |-> Pick(P, "exists", GoodDisk.exists),
         layout |-> b.layout, lib |-> Pick(P, "lib", "none"),
         effect |-> b.effect, code |-> b.code,
         src |-> [root_m |-> source, root_m_m |-> source, lib_m |-> GoodSource]]

Init ==
    \E P \in UpTo(DOMAIN Deviations, MaxDeviations) :
        Start(InputArgs(P), InputDisk(P), "load")

NextContent ==
    \/ CheckTag
    \/ CheckPackageName
    \/ CheckNameNonEmpty
    \/ CheckDescriptionNonEmpty
    \/ CheckAuthorContent
    \/ CheckProvides
    \/ CheckAsset
    \/ NextEntry

Next ==
    \/ LoadMetadata
    \/ CheckShape
    \/ ValidateTopSchema
    \/ ValidateAuthorSchema
    \/ NextContent
    \/ Success
    \/ Except

Spec == Init /\ [][Next]_vars

(***************************************************************************)
(* SpecContent: validate_content on the schema-valid documents.            *)
(***************************************************************************)
InitContent ==
    \E P \in UpTo({i \in DOMAIN Deviations : Deviations[i].valid}, MaxDeviations) :
        Start(InputArgs(P), InputDisk(P), "check_tag")

SpecContent == InitContent /\ [][NextContent]_vars

\* validate_content has returned (content_ok) or raised (except)
ContentDone == pc \in {"content_ok", "except"}

HasPlaceholder == Contains(metadata.author.name.s, PLACEHOLDER)

\* C9 as stated: an author name holding the placeholder makes content
\* validation fail with PlaceholderDetected, whatever the rest of the input
C9_AsClaimed ==
    (ContentDone /\ HasPlaceholder) => exc.kind = "PlaceholderDetected"

\* the checks that validate_content runs before the placeholder test
EarlierChecksPass ==
    /\ _check_tag(args.tag) = NoExc
    /\ _check_package_name(metadata.name, args.name) = NoExc
    /\ _check_non_empty_str(metadata.name, <<"name">>) = NoExc
    /\ _check_non_empty_str(metadata.description, <<"description">>) = NoExc
    /\ _check_non_empty_str(metadata.author.email, <<"author", "email">>) = NoExc

\* C9 amended: for a schema-valid document whose author name holds the
\* placeholder, content validation always fails, and it fails with
\* PlaceholderDetected whenever the checks that run before it pass (tag,
\* name match, non-empty name, description and author e-mail), whatever the
\* shape of the e-mail and the provides section are
C9_PlaceholderDetected ==
    (ContentDone /\ HasPlaceholder) =>
        /\ exc # NoExc
        /\ EarlierChecksPass => exc.kind = "PlaceholderDetected"
        /\ ~EarlierChecksPass => exc.kind \in {"InvalidVersion", "NameMismatch", "EmptyField"}

\* a placeholder name was reported although the e-mail is malformed too
C9_Witness ==
    /\ ContentDone /\ HasPlaceholder
    /\ ~EmailMatches(metadata.author.email.s)
    /\ exc.kind = "PlaceholderDetected"

(***************************************************************************)
(* What the checks of the pipeline say of an input, each taken alone and   *)
(* listed in the order the specification fixes.                            *)
(***************************************************************************)
Outcome(name, result) == [name |-> name, kind |-> result.kind]

\* _check_code_entry_point as a whole
EntryPointOutcome(d, ref) ==
    IF ref.t # "str" THEN Raise("TypeError", "NotAString", <<>>)
    ELSE IF IndexOf(ref.s, ":") = 0 THEN Raise("ValueError", "MalformedRef", <<>>)
    ELSE LET st == find_spec(d, module_name_of(ref.s), <<"root">> \o InitialPath) IN
         IF st.exc # NoExc THEN st.exc
         ELSE IF ~st.spec.found \/ st.spec.file = "none"
         THEN Raise("FileNotFoundError", "ModuleNotFound", <<>>)
         ELSE IF d.src[st.spec.file].state # "ok"
         THEN Raise("SyntaxError", "Unexpected", <<>>)
         ELSE IF BodyDefines(d.src[st.spec.file].body, attr_name_of(ref.s)) THEN NoExc
         ELSE Raise("NameError", "AttributeNotFound", <<>>)

LoadOutcome ==
    CASE disk.metaFile = "missing" -> Raise("SystemExit", "FileNotFound", <<1>>)
      [] disk.metaFile = "unreadable" -> Raise("PermissionError", "Unexpected", <<>>)
      [] disk.metaFile = "bad_yaml" -> Raise("YAMLError", "ParseError", <<>>)
      [] OTHER -> NoExc

AssetOutcomes ==
    IF provides_data.assets.t # "list" THEN <<>>
    ELSE [i \in 1..Len(provides_data.assets.items) |->
            LET a == provides_data.assets.items[i] IN
            Outcome("asset",
                    IF a.t # "dict" THEN Raise("TypeError", "WrongType", <<>>)
                    ELSE _check_asset_path(IF a.path.t = "absent" THEN None ELSE a.path,
                                           root_path, disk.exists))]

ExpectedOutcomes ==
    LET author == AuthorChecks(metadata.author) IN
    << Outcome("load", LoadOutcome),
       Outcome("shape", IF metadata.top # "dict"
                        THEN Raise("TypeError", "WrongShape", <<>>) ELSE NoExc),
       Outcome("schema_top", _validate_dict_schema(metadata, SCHEMA, "")),
       Outcome("schema_author",
               _validate_dict_schema(metadata.author, AUTHOR_SCHEMA, "author")),
       Outcome("tag", _check_tag(args.tag)),
       Outcome("name_match", _check_package_name(metadata.name, args.name)),
       Outcome("name_non_empty", _check_non_empty_str(metadata.name, <<"name">>)),
       Outcome("description_non_empty",
               _check_non_empty_str(metadata.description, <<"description">>)),
       Outcome("author_name", author[1]),
       Outcome("author_email", author[2]),
       Outcome("placeholder", author[3]),
       Outcome("email_shape", author[4]),
       Outcome("provides",
               IF provides_data.assets.t = "absent" /\ provides_data.code.t = "absent"
               THEN Raise("ValueError", "EmptyProvides", <<>>)
               ELSE IF provides_data.assets.t \notin {"absent", "list"}
               THEN Raise("TypeError", "WrongType", <<>>)
               ELSE NoExc) >>
    \o AssetOutcomes
    \o (IF provides_data.code.t = "absent" THEN <<>>
        ELSE << Outcome("entry_point", EntryPointOutcome(disk, provides_data.code)) >>)

\* the place of the first check that does not hold, 0 when all hold
FirstFailing ==
    LET R == ExpectedOutcomes IN
    IF \E i \in 1..Len(R) : R[i].kind # "none"
    THEN CHOOSE i \in 1..Len(R) : R[i].kind # "none" /\ \A j \in 1..(i - 1) : R[j].kind = "none"
    ELSE 0

Finished == pc = "done"

\* C1 as stated: the exit code is 0 exactly when every check holds, and is 1
\* in every other case
C1_AsClaimed ==
    Finished =>
        /\ exitCode \in {0, 1}
        /\ exitCode = 0 <=> FirstFailing = 0

\* C2 as stated: the checks run in the fixed order up to the first one that
\* does not hold, whose failure is the one diagnostic reported
C2_AsClaimed ==
    Finished =>
        LET R == ExpectedOutcomes
            k == FirstFailing
        IN  IF k = 0
            THEN ran = [i \in 1..Len(R) |-> R[i].name] /\ diags = <<>>
            ELSE /\ ran = [i \in 1..k |-> R[i].name]
                 /\ Len(diags) = 1
                 /\ diags[1].kind = R[k].kind

====
